---- MODULE Spec2Model ----
(***************************************************************************)
(* Model of scripts/generate_og.py: the text measurement adapter           *)
(* (measure), the greedy word wrap (wrap_text) and the rendering sequence  *)
(* of main (heading shrink loop, subtitle, optional assets, save).         *)
(*                                                                         *)
(* A string is a sequence of one-character strings.  Pillow is external:   *)
(* the width it reports for a text in a font is an input, held in the      *)
(* drawing context `draw`, and which of its measurement calls exist in     *)
(* the installed version is an input, held in `pil`.                       *)
(***************************************************************************)
EXTENDS Integers, Sequences, FiniteSets, TLC

VARIABLES
    pil,        \* installed Pillow: [textbbox |-> BOOLEAN, getsize |-> BOOLEAN]
    ttf,        \* the font files ImageFont.truetype can load
    draw,       \* the drawing context: [width |-> table <<text, font>> -> pixels]
    text,       \* wrap_text's text (main: desc)
    font,       \* wrap_text's font (main: font_desc)
    max_width,  \* wrap_text's max_width (main: maxw)
    lines,      \* the list wrap_text returned (main: after the [:3] cut)
    pc,         \* position in the script
    repo,       \* main: the repository name drawn as heading
    font_repo,  \* main: the heading font
    si,         \* main: position of the shrink loop in range(64, 28, -2)
    rw,         \* main: last measured heading width
    rh,         \* main: last measured heading height
    logo,       \* main: what the avatar file turned out to be
    gh,         \* main: what the GitHub mark file turned out to be
    drawn,      \* main: the visual elements put on the image
    stdout,     \* main: what was printed
    saved       \* main: img.save was reached

vars == <<pil, ttf, draw, text, font, max_width, lines, pc, repo, font_repo,
          si, rw, rh, logo, gh, drawn, stdout, saved>>

---------------------------------------------------------------------------
(* Bounds of the model *)

\* longest text given to wrap_text
MaxLen == 5

\* the characters of a text: two letters, the space and the tab
Alphabet == {"a", "b", " ", "\t"}

Texts == UNION {[1..n -> Alphabet] : n \in 0..MaxLen}

\* the widths wrap_text is called with, and the widths Pillow may report
MaxWidths == {6, 18}

PxSet == {6, 19}

---------------------------------------------------------------------------
(* Strings *)

\* str.isspace() on the characters of the alphabet
IsSpace(c) == c \in {" ", "\t"}

RECURSIVE SplitAcc(_, _, _)
SplitAcc(rest, word, acc) ==
    IF rest = <<>>
    THEN IF word = <<>> THEN acc ELSE Append(acc, word)
    ELSE IF IsSpace(Head(rest))
         THEN SplitAcc(Tail(rest), <<>>,
                       IF word = <<>> THEN acc ELSE Append(acc, word))
         ELSE SplitAcc(Tail(rest), Append(word, Head(rest)), acc)

\* str.split(): the maximal runs of non-whitespace characters, in order
split(s) == SplitAcc(s, <<>>, <<>>)

RECURSIVE SplitSepAcc(_, _, _)
SplitSepAcc(rest, word, acc) ==
    IF rest = <<>>
    THEN Append(acc, word)
    ELSE IF Head(rest) = " "
         THEN SplitSepAcc(Tail(rest), <<>>, Append(acc, word))
         ELSE SplitSepAcc(Tail(rest), Append(word, Head(rest)), acc)

\* str.split(" "): the pieces between single spaces, empty pieces included
SplitOnSpace(s) == SplitSepAcc(s, <<>>, <<>>)

RECURSIVE Join(_)
\* " ".join(ws)
Join(ws) ==
    IF ws = <<>> THEN <<>>
    ELSE IF Len(ws) = 1 THEN ws[1]
    ELSE ws[1] \o <<" ">> \o Join(Tail(ws))

RECURSIVE Flatten(_)
Flatten(ss) == IF ss = <<>> THEN <<>> ELSE Head(ss) \o Flatten(Tail(ss))

\* every string made of consecutive words joined by single spaces
Joins(ws) ==
    {Join(SubSeq(ws, i, j)) : i \in 1..Len(ws), j \in 1..Len(ws)} \ {<<>>}

---------------------------------------------------------------------------
(* Fonts *)

FONT_REGULAR == "DejaVuSans.ttf"

FONT_BOLD == "DejaVuSans-Bold.ttf"

\* ImageFont.load_default(): one fixed bitmap font, whatever size was asked
DefaultFont == [kind |-> "default", path |-> "", size |-> 10]

load_font(path, size) ==
    IF path \in ttf
    THEN [kind |-> "truetype", path |-> path, size |-> size]
    ELSE DefaultFont

---------------------------------------------------------------------------
(* measure *)

Raised == [ok |-> FALSE]

Returned(v) == [ok |-> TRUE, val |-> v]

\* Pillow's width and line height of a text in a font
LibWidth(d, t, f) == d.width[<<t, f>>]

LibHeight(f) == f.size

\* draw.textbbox(xy, text, font=font): (left, top, right, bottom)
textbbox(d, xy, t, f) ==
    IF pil.textbbox
    THEN LET o == f.size \div 8
         IN Returned(<<xy[1] + o, xy[2] + o,
                       xy[1] + o + LibWidth(d, t, f), xy[2] + o + LibHeight(f)>>)
    ELSE Raised

\* font.getsize(text): (width, height)
getsize(d, f, t) ==
    IF pil.getsize THEN Returned(<<LibWidth(d, t, f), LibHeight(f)>>) ELSE Raised

\* measure without the inner try: a failing font.getsize propagates
measure_NoInnerTry(d, t, f) ==
    LET bbox == textbbox(d, <<0, 0>>, t, f)
    IN IF bbox.ok
       THEN Returned(<<bbox.val[3] - bbox.val[1], bbox.val[4] - bbox.val[2]>>)
       ELSE getsize(d, f, t)

measure(d, t, f) ==
    LET bbox == textbbox(d, <<0, 0>>, t, f)
    IN IF bbox.ok
       THEN Returned(<<bbox.val[3] - bbox.val[1], bbox.val[4] - bbox.val[2]>>)
       ELSE LET sz == getsize(d, f, t)
            IN IF sz.ok THEN Returned(sz.val)
               ELSE Returned(<<Len(t) * 6, 20>>)

---------------------------------------------------------------------------
(* wrap_text *)

\* WrapStep that forgets a word too wide for an empty line
WrapStep_DropsOversized(st, w, f, mw, d) ==
    LET test == st.cur \o (IF st.cur # <<>> THEN <<" ">> ELSE <<>>) \o w
        w_px == measure(d, test, f).val[1]
    IN IF w_px <= mw
       THEN [cur |-> test, lines |-> st.lines]
       ELSE [cur |-> IF st.cur # <<>> THEN w ELSE <<>>,
             lines |-> IF st.cur # <<>> THEN Append(st.lines, st.cur)
                       ELSE st.lines]

\* WrapStep without the `if cur:` guard before lines.append(cur)
WrapStep_AlwaysEmits(st, w, f, mw, d) ==
    LET test == st.cur \o (IF st.cur # <<>> THEN <<" ">> ELSE <<>>) \o w
        w_px == measure(d, test, f).val[1]
    IN IF w_px <= mw
       THEN [cur |-> test, lines |-> st.lines]
       ELSE [cur |-> w, lines |-> Append(st.lines, st.cur)]

\* WrapStep that measures the word instead of the candidate line
WrapStep_MeasuresWord(st, w, f, mw, d) ==
    LET test == st.cur \o (IF st.cur # <<>> THEN <<" ">> ELSE <<>>) \o w
        w_px == measure(d, w, f).val[1]
    IN IF w_px <= mw
       THEN [cur |-> test, lines |-> st.lines]
       ELSE [cur |-> w,
             lines |-> IF st.cur # <<>> THEN Append(st.lines, st.cur)
                       ELSE st.lines]

\* WrapStep that joins the next word onto a line holding one too-wide word
WrapStep_JoinsAfterOversized(st, w, f, mw, d) ==
    LET test == st.cur \o (IF st.cur # <<>> THEN <<" ">> ELSE <<>>) \o w
        w_px == measure(d, test, f).val[1]
    IN IF w_px <= mw \/ (st.cur # <<>> /\ measure(d, st.cur, f).val[1] > mw)
       THEN [cur |-> test, lines |-> st.lines]
       ELSE [cur |-> w,
             lines |-> IF st.cur # <<>> THEN Append(st.lines, st.cur)
                       ELSE st.lines]

\* WrapStep that compares with < instead of <=
WrapStep_StrictLess(st, w, f, mw, d) ==
    LET test == st.cur \o (IF st.cur # <<>> THEN <<" ">> ELSE <<>>) \o w
        w_px == measure(d, test, f).val[1]
    IN IF w_px < mw
       THEN [cur |-> test, lines |-> st.lines]
       ELSE [cur |-> w,
             lines |-> IF st.cur # <<>> THEN Append(st.lines, st.cur)
                       ELSE st.lines]

\* one pass of the for loop over the words: st = [cur, lines]
WrapStep(st, w, f, mw, d) ==
    LET test == st.cur \o (IF st.cur # <<>> THEN <<" ">> ELSE <<>>) \o w
        w_px == measure(d, test, f).val[1]
    IN IF w_px <= mw
       THEN [cur |-> test, lines |-> st.lines]
       ELSE [cur |-> w,
             lines |-> IF st.cur # <<>> THEN Append(st.lines, st.cur)
                       ELSE st.lines]

RECURSIVE WrapLoop(_, _, _, _, _)
WrapLoop(words, st, f, mw, d) ==
    IF words = <<>> THEN st
    ELSE WrapLoop(Tail(words), WrapStep(st, Head(words), f, mw, d), f, mw, d)

\* wrap_text without the `if cur:` guard before the final lines.append(cur)
wrap_text_AlwaysFlushes(t, f, mw, d) ==
    LET words == split(t)
        st == WrapLoop(words, [cur |-> <<>>, lines |-> <<>>], f, mw, d)
    IN Append(st.lines, st.cur)

wrap_text(t, f, mw, d) ==
    LET words == split(t)
        st == WrapLoop(words, [cur |-> <<>>, lines |-> <<>>], f, mw, d)
    IN IF st.cur # <<>> THEN Append(st.lines, st.cur) ELSE st.lines

---------------------------------------------------------------------------
(* wrap_text called on every bounded text *)

NoFont == [kind |-> "none", path |-> "", size |-> 0]

\* the widths Pillow reports are read only when one of its calls exists
Tables(keys, px) ==
    IF pil.textbbox \/ pil.getsize THEN [keys -> px] ELSE {[k \in keys |-> 0]}

InitWrap ==
    /\ pil \in [textbbox : BOOLEAN, getsize : BOOLEAN]
    /\ ttf = {FONT_REGULAR, FONT_BOLD}
    /\ text \in Texts
    /\ font = load_font(FONT_REGULAR, 26)
    /\ max_width \in MaxWidths
    /\ \E tab \in Tables(Joins(split(text)) \X {font}, PxSet) :
          draw = [width |-> tab]
    /\ lines = <<>>
    /\ pc = "call"
    /\ repo = <<>>
    /\ font_repo = NoFont
    /\ si = 0
    /\ rw = 0
    /\ rh = 0
    /\ logo = "unread"
    /\ gh = "unread"
    /\ drawn = {}
    /\ stdout = <<>>
    /\ saved = FALSE

CallWrap ==
    /\ pc = "call"
    /\ lines' = wrap_text(text, font, max_width, draw)
    /\ pc' = "returned"
    /\ UNCHANGED <<pil, ttf, draw, text, font, max_width, repo, font_repo,
                   si, rw, rh, logo, gh, drawn, stdout, saved>>

NextWrap == CallWrap

SpecWrap == InitWrap /\ [][NextWrap]_vars

---------------------------------------------------------------------------
(* main *)

W == 1280

H == 640

left == 100

right == W - 260

maxw == right - left

RECURSIVE range(_, _, _)
\* range(start, stop, step) for a negative step: stop is excluded
range(start, stop, step) ==
    IF start > stop THEN <<start>> \o range(start + step, stop, step) ELSE <<>>

\* the sizes the shrink loop visits
ShrinkSizes == range(64, 28, -2)

\* s[:n]
Take(s, n) == SubSeq(s, 1, IF Len(s) < n THEN Len(s) ELSE n)

\* the even sizes from 28 to 64: the sizes between the bounds of the loop's
\* range, both bounds included
HeadingSizes == {n \in 28..64 : n % 2 = 0}

\* the repository names: a short one, and one of 154 characters, which the
\* 6-pixels-per-character fallback of measure puts at 924 > maxw
RepoNames == {<<"r", "e", "p", "o">>, [i \in 1..154 |-> "x"]}

\* the descriptions: none, and one of four words
MainDescs == {<<>>, <<"a", " ", "b", " ", "c", " ", "d">>}

\* the heading fonts load_font can return
HeadingFonts == {load_font(FONT_BOLD, n) : n \in HeadingSizes}

\* the sets of font sizes at which the repository name fits maxw.  A
\* scalable font fits from some size down (or at no size); single sizes are
\* added so that fitting does not depend on that shape.  The default bitmap
\* font has one size.
FitSets ==
    IF FONT_BOLD \in ttf
    THEN {{n \in HeadingSizes : n <= t} : t \in HeadingSizes \cup {26}}
         \cup {{t} : t \in HeadingSizes}
    ELSE {{}, {DefaultFont.size}}

InitMain ==
    /\ pil \in [textbbox : BOOLEAN, getsize : BOOLEAN]
    /\ ttf \in SUBSET {FONT_REGULAR, FONT_BOLD}
    /\ repo \in RepoNames
    /\ text \in MainDescs
    /\ font = NoFont
    /\ max_width = maxw
    /\ \E fit \in FitSets, px \in {maxw, maxw + 1} :
          LET keys == ({repo} \X HeadingFonts)
                      \cup (Joins(split(text)) \X {load_font(FONT_REGULAR, 26)})
          IN IF pil.textbbox \/ pil.getsize
             THEN draw = [width |-> [k \in keys |->
                                       IF k[1] = repo
                                       THEN IF k[2].size \in fit
                                            THEN maxw ELSE maxw + 1
                                       ELSE px]]
             ELSE draw = [width |-> [k \in keys |-> 0]]
    /\ lines = <<>>
    /\ pc = "start"
    /\ font_repo = NoFont
    /\ si = 0
    /\ rw = 0
    /\ rh = 0
    /\ logo = "unread"
    /\ gh = "unread"
    /\ drawn = {}
    /\ stdout = <<>>
    /\ saved = FALSE

\* new image and drawing context, the four load_font calls
LoadFonts ==
    /\ pc = "start"
    /\ font_repo' = load_font(FONT_BOLD, 64)
    /\ font' = load_font(FONT_REGULAR, 26)
    /\ pc' = "owner"
    /\ UNCHANGED <<pil, ttf, draw, text, max_width, lines, repo, si, rw, rh,
                   logo, gh, drawn, stdout, saved>>

\* the owner line, drawn when the title has an owner part
DrawOwner ==
    /\ pc = "owner"
    /\ \E owner \in BOOLEAN :
          drawn' = IF owner THEN drawn \cup {"owner"} ELSE drawn
    /\ pc' = "heading"
    /\ UNCHANGED <<pil, ttf, draw, text, font, max_width, lines, repo,
                   font_repo, si, rw, rh, logo, gh, stdout, saved>>

\* rw, rh = measure(draw, repo, font_repo); if rw > maxw: enter the loop
MeasureRepo ==
    /\ pc = "heading"
    /\ LET m == measure(draw, repo, font_repo).val
       IN /\ rw' = m[1]
          /\ rh' = m[2]
          /\ IF m[1] > maxw /\ ShrinkSizes # <<>>
             THEN pc' = "shrink" /\ si' = 1
             ELSE pc' = "draw_repo" /\ si' = si
    /\ UNCHANGED <<pil, ttf, draw, text, font, max_width, lines, repo,
                   font_repo, logo, gh, drawn, stdout, saved>>

\* one pass of `for s in range(64, 28, -2)`
Shrink ==
    /\ pc = "shrink"
    /\ LET s == ShrinkSizes[si]
           f == load_font(FONT_BOLD, s)
           m == measure(draw, repo, f).val
       IN /\ font_repo' = f
          /\ rw' = m[1]
          /\ rh' = m[2]
          /\ IF m[1] <= maxw
             THEN pc' = "draw_repo" /\ si' = si
             ELSE IF si < Len(ShrinkSizes)
                  THEN pc' = "shrink" /\ si' = si + 1
                  ELSE pc' = "draw_repo" /\ si' = si
    /\ UNCHANGED <<pil, ttf, draw, text, font, max_width, lines, repo,
                   logo, gh, drawn, stdout, saved>>

DrawRepo ==
    /\ pc = "draw_repo"
    /\ drawn' = drawn \cup {"repo"}
    /\ pc' = "subtitle"
    /\ UNCHANGED <<pil, ttf, draw, text, font, max_width, lines, repo,
                   font_repo, si, rw, rh, logo, gh, stdout, saved>>

\* lines = wrap_text(desc, font_desc, maxw, draw)[:3], each line drawn
Subtitle ==
    /\ pc = "subtitle"
    /\ lines' = Take(wrap_text(text, font, maxw, draw), 3)
    /\ drawn' = IF lines' # <<>> THEN drawn \cup {"subtitle"} ELSE drawn
    /\ pc' = "stats"
    /\ UNCHANGED <<pil, ttf, draw, text, font, max_width, repo, font_repo,
                   si, rw, rh, logo, gh, stdout, saved>>

\* the stats row, and the meta line when author or sha is given
Stats ==
    /\ pc = "stats"
    /\ \E meta \in BOOLEAN :
          drawn' = drawn \cup {"stats"} \cup (IF meta THEN {"meta"} ELSE {})
    /\ pc' = "avatar"
    /\ UNCHANGED <<pil, ttf, draw, text, font, max_width, lines, repo,
                   font_repo, si, rw, rh, logo, gh, stdout, saved>>

\* what opening an optional image file can come to
FileStates == {"missing", "unreadable", "ok"}

\* the avatar: pasted when the file exists and decodes, else nothing
Avatar ==
    /\ pc = "avatar"
    /\ \E st \in FileStates :
          /\ logo' = st
          /\ drawn' = IF st = "ok" THEN drawn \cup {"avatar"} ELSE drawn
    /\ pc' = "bar"
    /\ UNCHANGED <<pil, ttf, draw, text, font, max_width, lines, repo,
                   font_repo, si, rw, rh, gh, stdout, saved>>

ColorBar ==
    /\ pc = "bar"
    /\ drawn' = drawn \cup {"bar"}
    /\ pc' = "ghmark"
    /\ UNCHANGED <<pil, ttf, draw, text, font, max_width, lines, repo,
                   font_repo, si, rw, rh, logo, gh, stdout, saved>>

\* the GitHub mark: pasted when the file exists and decodes, nothing when it
\* exists and does not decode, a placeholder circle when it is missing
GithubMark ==
    /\ pc = "ghmark"
    /\ \E st \in FileStates :
          /\ gh' = st
          /\ drawn' = CASE st = "ok" -> drawn \cup {"github-mark"}
                        [] st = "unreadable" -> drawn
                        [] st = "missing" -> drawn \cup {"placeholder"}
    /\ pc' = "save"
    /\ UNCHANGED <<pil, ttf, draw, text, font, max_width, lines, repo,
                   font_repo, si, rw, rh, logo, stdout, saved>>

\* img.save(...); print("Generated", args.output)
Save ==
    /\ pc = "save"
    /\ saved' = TRUE
    /\ stdout' = Append(stdout, "Generated")
    /\ pc' = "done"
    /\ UNCHANGED <<pil, ttf, draw, text, font, max_width, lines, repo,
                   font_repo, si, rw, rh, logo, gh, drawn>>

NextMain ==
    \/ LoadFonts
    \/ DrawOwner
    \/ MeasureRepo
    \/ Shrink
    \/ DrawRepo
    \/ Subtitle
    \/ Stats
    \/ Avatar
    \/ ColorBar
    \/ GithubMark
    \/ Save

SpecMain == InitMain /\ [][NextMain]_vars

---------------------------------------------------------------------------
(* Properties of wrap_text and measure *)

\* the measured width of a string, as wrap_text reads it
Width(s) == measure(draw, s, font).val[1]

Words == split(text)

\* the words of every returned line, in order
LineWords == Flatten([i \in 1..Len(lines) |-> SplitOnSpace(lines[i])])

RECURSIVE LineOfWord(_, _)
\* the index of the line holding the k-th word, 0 when no line does
LineOfWord(ls, k) ==
    IF ls = <<>> THEN 0
    ELSE IF k <= Len(split(Head(ls))) THEN 1
    ELSE LET r == LineOfWord(Tail(ls), k - Len(split(Head(ls))))
         IN IF r = 0 THEN 0 ELSE r + 1

\* a line is at least as wide as any word it contains
Monotone ==
    \A i \in 1..Len(Words) : \A j \in i..Len(Words) : \A k \in i..j :
        Width(Join(SubSeq(Words, i, j))) >= Width(Words[k])

\* C1: the words of the returned lines, split on spaces and concatenated in
\* order, are exactly text.split(): none dropped, duplicated or reordered.
C1_WordPreservation ==
    pc = "returned" => LineWords = split(text)

C1_Witness ==
    /\ pc = "returned"
    /\ Len(Words) >= 3
    /\ Len(lines) = 2
    /\ Words[1] # Words[2]

\* C2: for a non-empty text no returned line is the empty string, also when
\* the first word alone is wider than max_width.
C2_NoEmptyLines ==
    (pc = "returned" /\ text # <<>>) =>
        \A i \in 1..Len(lines) : lines[i] # <<>>

C2_Witness ==
    /\ pc = "returned"
    /\ Len(Words) >= 2
    /\ Width(Words[1]) > max_width
    /\ Len(lines) >= 2

\* C3: every returned line measures at most max_width, or is one single word
\* that alone measures more than max_width.
C3_WidthBound ==
    pc = "returned" =>
        \A i \in 1..Len(lines) :
            \/ Width(lines[i]) <= max_width
            \/ /\ Len(split(lines[i])) = 1
               /\ Width(split(lines[i])[1]) > max_width

C3_Witness ==
    /\ pc = "returned"
    /\ \E i \in 1..Len(lines) : Len(split(lines[i])) >= 2
    /\ \E i \in 1..Len(lines) : Width(lines[i]) > max_width

\* C6: measure never raises and returns a pair of non-negative numbers; when
\* both the bounding-box query and the font size query fail the pair is
\* (6 * number of characters, 20).
C6_MeasureTotal ==
    \A s \in Joins(Words) :
        LET m == measure(draw, s, font)
        IN /\ m.ok
           /\ Len(m.val) = 2
           /\ m.val[1] >= 0
           /\ m.val[2] >= 0
           /\ (~pil.textbbox /\ ~pil.getsize) => m.val = <<6 * Len(s), 20>>

C6_Witness ==
    /\ pc = "returned"
    /\ ~pil.textbbox
    /\ ~pil.getsize
    /\ Len(lines) >= 2

\* C8 as claimed: the returned list is empty exactly when the text is the
\* empty string; every non-empty text, whitespace-only included, yields a line.
C8_EmptyOnlyForEmptyText ==
    pc = "returned" => (lines = <<>> <=> text = <<>>)

\* C8 amended: the returned list is empty exactly when the text holds no
\* word, that is when it is empty or consists of whitespace only.
C8_EmptyIffNoWord ==
    pc = "returned" =>
        (lines = <<>> <=> \A i \in 1..Len(text) : IsSpace(text[i]))

C8_Witness ==
    /\ pc = "returned"
    /\ text # <<>>
    /\ lines = <<>>

\* C9: under a measurement where a line is at least as wide as any word it
\* contains, a word that alone measures more than max_width is a line by
\* itself, wherever it stands in the text.
C9_OversizedAlone ==
    (pc = "returned" /\ Monotone) =>
        \A k \in 1..Len(Words) :
            Width(Words[k]) > max_width =>
                /\ LineOfWord(lines, k) # 0
                /\ lines[LineOfWord(lines, k)] = Words[k]

C9_Witness ==
    /\ pc = "returned"
    /\ Monotone
    /\ Len(Words) = 3
    /\ Width(Words[1]) <= max_width
    /\ Width(Words[2]) > max_width
    /\ Width(Words[3]) <= max_width
    /\ lines = Words

\* C10: for consecutive returned lines L and L', L + " " + (first word of L')
\* measures more than max_width.
C10_Greedy ==
    pc = "returned" =>
        \A i \in 1..(Len(lines) - 1) :
            Width(lines[i] \o <<" ">> \o split(lines[i + 1])[1]) > max_width

C10_Witness ==
    /\ pc = "returned"
    /\ Len(lines) >= 2
    /\ \E i \in 1..Len(lines) : Len(split(lines[i])) >= 2

---------------------------------------------------------------------------
(* Properties of main *)

\* the measured width of the repository name in the bold font of size n
HeadingWidth(n) == measure(draw, repo, load_font(FONT_BOLD, n)).val[1]

\* C4: the heading sizing never ends with a font size outside [28, 64], and
\* whenever the repository name measures at most maxw at some size in
\* {64, 62, ..., 28}, the width in the font finally chosen is at most maxw.
C4_ShrinkFitsWhenAnySizeFits ==
    pc = "done" =>
        /\ font_repo.kind = "truetype" => font_repo.size \in 28..64
        /\ (\E n \in HeadingSizes : HeadingWidth(n) <= maxw) =>
               measure(draw, repo, font_repo).val[1] <= maxw

\* C5: when the repository name is wider than maxw at every size the shrink
\* loop tries, the render still completes and the heading is drawn in the
\* font of size 28.
C5_NeverFitsUsesMinSize ==
    (pc = "done" /\ \A i \in 1..Len(ShrinkSizes) :
                        HeadingWidth(ShrinkSizes[i]) > maxw) =>
        /\ saved
        /\ "repo" \in drawn
        /\ font_repo = load_font(FONT_BOLD, 28)

\* a printed line other than the final "Generated" report
IsDiagnostic(msg) == msg # "Generated"

\* C7: an optional image that is missing or cannot be opened or decoded is
\* left out, the render reaches the save step, and a diagnostic notice is
\* printed.
C7_AssetFailureNoticed ==
    pc = "done" =>
        /\ logo # "ok" =>
              /\ "avatar" \notin drawn
              /\ saved
              /\ \E i \in 1..Len(stdout) : IsDiagnostic(stdout[i])
        /\ gh # "ok" =>
              /\ "github-mark" \notin drawn
              /\ saved
              /\ \E i \in 1..Len(stdout) : IsDiagnostic(stdout[i])

====
